---- MODULE Spec2Model ----
(***************************************************************************)
(* Model of generic_dataset.dataset_disk_manager.DatasetDiskManager.       *)
(*                                                                         *)
(* The state is the file system (directories and regular files), the       *)
(* attributes of the live manager instance (_dataset_path, _positive_count,*)
(* _negative_count, _lock) and, for every save_sample call, the position   *)
(* of the thread executing it together with the locals of the call         *)
(* (count, folder_pos_neg, positive_count, negative_count, the loop index  *)
(* over the fields).  File names and paths are strings built exactly as    *)
(* the code builds them.                                                   *)
(***************************************************************************)
EXTENDS Integers, Sequences, FiniteSets, TLC

(***************************************************************************)
(* Bounds of the model.                                                    *)
(***************************************************************************)
\* number of save_sample calls issued over the whole run
MaxCalls == 3
\* number of save_sample calls that may be in flight at the same time
MaxInFlight == 2
\* number of constructions of a DatasetDiskManager (failed ones included)
MaxInstances == 2
\* number of operations of the sample that raise (is_positive, save_field)
MaxFailures == 1
\* number of times the owner of a sample changes its label during a save
MaxRelabels == 1

Calls == 1..MaxCalls

(***************************************************************************)
(* The environment: sample classes, declared fields, paths.                *)
(***************************************************************************)
\* the class of the reference sample, a subclass of it, an unrelated class
RefType == "Sample"
Types == {"Sample", "SubSample", "Other"}
Subclasses(cls) == IF cls = "Sample" THEN {"Sample", "SubSample"} ELSE {cls}

\* sample.get_dataset_fields(), in enumeration order
Fields == <<"a", "b">>

FolderName == "folder_1"
\* candidate dataset paths, as (dirname, basename); "/data" exists, "/missing" does not
DatasetPaths == {[parent |-> "/data", base |-> "ds"],
                 [parent |-> "/missing", base |-> "ds"]}
InitialDirs == {"/data"}

POSITIVE_DATA_FOLDER == "positive_samples"
NEGATIVE_DATA_FOLDER == "negative_samples"

NoPath == "<unset>"
NoCount == -1
NoCall == 0
NoGot == [getter |-> "none", value |-> NoCount]

\* os.path.join of two relative components
Join(a, b) == a \o "/" \o b

VARIABLES
    dirs,                 \* directories that exist on disk
    files,                \* regular files on disk: records [dir, name]
    instances,            \* constructions attempted so far
    ctor,                 \* outcome of the last construction
    ctor_path,            \* the dataset_path argument of the last construction
    self_dataset_path,    \* self._dataset_path of the live instance
    self_positive_count,  \* self._positive_count
    self_negative_count,  \* self._negative_count
    self_lock,            \* self._lock: NoCall when free, else the holder
    base_positive,        \* counters as initialised by __init__
    base_negative,
    serial,               \* no two save_sample calls of the live instance overlapped
    failures,             \* sample operations that raised so far
    relabels,             \* label changes so far
    pc,                   \* per call: position of the executing thread
    sample_type,          \* per call: class of the sample, until the isinstance test
                          \*   is behind the call and nothing reads the class again
    is_positive,          \* per call: what sample.is_positive() returns now
    use_thread,           \* per call: the use_thread argument
    count,                \* per call: local count
    folder_pos_neg,       \* per call: local folder_pos_neg
    positive_count,       \* per call: local positive_count
    negative_count,       \* per call: local negative_count
    field_index,          \* per call: position of the loop over the fields
    targets,              \* per call: the paths handed to save_field, in order
    ret,                  \* per call: what save_sample gave its caller
    joined,               \* per call: outcome of thread.join() by the caller
    got,                  \* what the step just taken returned to the caller of a getter
    write_failed          \* a save_field call has raised on this disk

vars == <<dirs, files, instances, ctor, ctor_path, self_dataset_path, self_positive_count,
          self_negative_count, self_lock, base_positive, base_negative,
          serial, failures, relabels, pc, sample_type, is_positive, use_thread,
          count,
          folder_pos_neg, positive_count, negative_count, field_index, targets,
          ret, joined, got, write_failed>>

fsVars == <<dirs, files>>
selfVars == <<instances, ctor, ctor_path, self_dataset_path, base_positive,
              base_negative>>
envVars == <<failures, relabels>>
counterVars == <<self_positive_count, self_negative_count>>
argVars == <<sample_type, use_thread>>
localVars == <<count, folder_pos_neg, positive_count, negative_count>>
callVars == <<sample_type, is_positive, use_thread, count, folder_pos_neg,
              positive_count, negative_count, field_index, targets, ret, joined>>

Terminal == {"type_error", "cls_error", "finished", "io_error"}
InFlight(c) == pc[c] \notin ({"idle", "retired"} \cup Terminal)
Quiescent == \A c \in Calls : ~InFlight(c)
\* the calls made on the live instance
Current == {c \in Calls : pc[c] \notin {"idle", "retired"}}

(***************************************************************************)
(* Layout Manager: _set_up_folders and _count_samples.                     *)
(***************************************************************************)
DatasetPath(p) == Join(p.parent, p.base)

\* os.path.exists(os.path.dirname(self._dataset_path))
ParentMissingNever(d, p) == TRUE
ParentExists(d, p) == p.parent \in d

FolderPath(path) == Join(path, FolderName)
BranchPath(path, branch) == Join(FolderPath(path), branch)
FieldPath(path, branch, field) == Join(BranchPath(path, branch), field)

\* the directories of the layout _set_up_folders is to provide
LayoutDirs(path) ==
    {path, FolderPath(path),
     BranchPath(path, POSITIVE_DATA_FOLDER), BranchPath(path, NEGATIVE_DATA_FOLDER)}
    \cup {FieldPath(path, b, Fields[i]) :
            b \in {POSITIVE_DATA_FOLDER, NEGATIVE_DATA_FOLDER}, i \in 1..Len(Fields)}

\* os.mkdir(path): the parent has to exist and the path must not
MkdirError == "<OSError>"
Mkdir(d, parent, path) ==
    IF parent \in d /\ path \notin d THEN d \cup {path} ELSE d \cup {MkdirError}

\* if not os.path.exists(path): os.mkdir(path)
EnsureDirUnguarded(d, parent, path) == Mkdir(d, parent, path)
EnsureDir(d, parent, path) == IF path \in d THEN d ELSE Mkdir(d, parent, path)

\* lines 154-158: the inner loop over the fields, for one branch directory
RECURSIVE EnsureFieldDirs(_, _, _)
EnsureFieldDirs(d, folder, i) ==
    IF i > Len(Fields) THEN d
    ELSE EnsureFieldDirs(EnsureDir(d, folder, Join(folder, Fields[i])), folder, i + 1)

\* lines 138-158 of _set_up_folders, in the order of the code; MkdirError is in
\* the result when an os.mkdir raised
SetUpFolders(d, p) ==
    LET path == DatasetPath(p)
        positive_samples_path == BranchPath(path, POSITIVE_DATA_FOLDER)
        negative_samples_path == BranchPath(path, NEGATIVE_DATA_FOLDER)
        d1 == EnsureDir(d, p.parent, path)
        d2 == EnsureDir(d1, path, FolderPath(path))
        d3 == EnsureDir(d2, FolderPath(path), positive_samples_path)
        d4 == EnsureDir(d3, FolderPath(path), negative_samples_path)
        d5 == EnsureFieldDirs(d4, positive_samples_path, 1)
    IN  EnsureFieldDirs(d5, negative_samples_path, 1)

\* os.listdir(dir) filtered by os.path.isfile
ListFiles(fs, dir) == {f \in fs : f.dir = dir}

\* _count_samples: <<count_negatives, count_positives>>
CountSamplesSwapped(fs, path) ==
    <<Cardinality(ListFiles(fs, FieldPath(path, POSITIVE_DATA_FOLDER, Fields[1]))),
      Cardinality(ListFiles(fs, FieldPath(path, NEGATIVE_DATA_FOLDER, Fields[1])))>>
CountSamples(fs, path) ==
    <<Cardinality(ListFiles(fs, FieldPath(path, NEGATIVE_DATA_FOLDER, Fields[1]))),
      Cardinality(ListFiles(fs, FieldPath(path, POSITIVE_DATA_FOLDER, Fields[1])))>>

(***************************************************************************)
(* Sample Writer helpers.                                                  *)
(***************************************************************************)
\* isinstance(sample, type(self._sample))
IsInstanceAny(t, cls) == TRUE
IsInstanceExact(t, cls) == t = cls
IsInstance(t, cls) == t \in Subclasses(cls)

\* the lock can be taken
LockIgnored(l) == TRUE
LockFree(l) == l = NoCall

\* the file name save_all_fields builds for one field
FileNameUnnumbered(pos, field, total, ordinal) ==
    (IF pos THEN "positive_" ELSE "negative_") \o field
FileName(pos, field, total, ordinal) ==
    (IF pos THEN "positive_" ELSE "negative_")
        \o field \o "_" \o ToString(total) \o "_(" \o ToString(ordinal) \o ")"

\* the lock when call c leaves the with block after line 101
LockKept(l, c) == l
WithExit(l, c) == IF l = c THEN NoCall ELSE l

\* the lock when an exception leaves the with block of call c
LockKeptOnRaise(l, c) == l
WithExitOnRaise(l, c) == IF l = c THEN NoCall ELSE l

\* the for loop of save_all_fields has gone through every field
FirstFieldIsLast(i) == i >= 1
LastField(i) == i = Len(Fields)

\* self._positive_count += 1, self._negative_count += 1
NotIncremented(n) == n
Incremented(n) == n + 1

\* the counter a failed field write leaves behind
CounterRolledBack(n) == n - 1
CounterAfterFailure(n) == n

\* what thread.join() gives the caller of a thread that ended in state s
JoinReraises(s) == IF s = "io_error" THEN "raised" ELSE "ok"
JoinOutcome(s) == "ok"

PathOf(f) == Join(f.dir, f.name)

(***************************************************************************)
(* Initial state: nothing constructed, the parent directory exists.        *)
(***************************************************************************)
InitManager ==
    /\ files = {}
    /\ instances = 0
    /\ ctor = "none"
    /\ ctor_path = [parent |-> NoPath, base |-> NoPath]
    /\ self_dataset_path = NoPath
    /\ self_positive_count = NoCount
    /\ self_negative_count = NoCount
    /\ self_lock = NoCall
    /\ base_positive = NoCount
    /\ base_negative = NoCount
    /\ serial = TRUE
    /\ failures = 0
    /\ relabels = 0
    /\ pc = [c \in Calls |-> "idle"]
    /\ sample_type = [c \in Calls |-> RefType]
    /\ is_positive = [c \in Calls |-> FALSE]
    /\ use_thread = [c \in Calls |-> FALSE]
    /\ count = [c \in Calls |-> NoCount]
    /\ folder_pos_neg = [c \in Calls |-> NoPath]
    /\ positive_count = [c \in Calls |-> NoCount]
    /\ negative_count = [c \in Calls |-> NoCount]
    /\ field_index = [c \in Calls |-> 0]
    /\ targets = [c \in Calls |-> <<>>]
    /\ ret = [c \in Calls |-> "none"]
    /\ joined = [c \in Calls |-> "no"]
    /\ got = NoGot
    /\ write_failed = FALSE

Init ==
    /\ dirs = InitialDirs
    /\ InitManager

\* the frames and samples of the calls made on the instance being replaced are gone
Retire ==
    /\ pc' = [c \in Calls |-> IF pc[c] = "idle" THEN "idle" ELSE "retired"]
    /\ sample_type' = [c \in Calls |-> RefType]
    /\ is_positive' = [c \in Calls |-> FALSE]
    /\ use_thread' = [c \in Calls |-> FALSE]
    /\ count' = [c \in Calls |-> NoCount]
    /\ folder_pos_neg' = [c \in Calls |-> NoPath]
    /\ positive_count' = [c \in Calls |-> NoCount]
    /\ negative_count' = [c \in Calls |-> NoCount]
    /\ field_index' = [c \in Calls |-> 0]
    /\ targets' = [c \in Calls |-> <<>>]
    /\ ret' = [c \in Calls |-> "none"]
    /\ joined' = [c \in Calls |-> "no"]
    /\ serial' = TRUE

(***************************************************************************)
(* __init__(dataset_path, folder_name, sample)                             *)
(***************************************************************************)
\* _set_up_folders raises FileNotFoundError: no instance comes to exist
ConstructFail(p) ==
    /\ instances < MaxInstances
    /\ Quiescent
    /\ ~ParentExists(dirs, p)
    /\ instances' = instances + 1
    /\ ctor' = "FileNotFoundError"
    /\ ctor_path' = p
    /\ self_dataset_path' = NoPath
    /\ self_positive_count' = NoCount
    /\ self_negative_count' = NoCount
    /\ base_positive' = NoCount
    /\ base_negative' = NoCount
    /\ Retire
    /\ got' = NoGot
    /\ UNCHANGED write_failed
    /\ UNCHANGED <<fsVars, self_lock, envVars>>

\* _set_up_folders, _count_samples, the new lock; an os.mkdir that raises ends
\* the construction with what was made so far left on disk
ConstructOk(p) ==
    /\ instances < MaxInstances
    /\ Quiescent
    /\ ParentExists(dirs, p)
    /\ instances' = instances + 1
    /\ ctor_path' = p
    /\ LET made == SetUpFolders(dirs, p)
           counted == CountSamples(files, DatasetPath(p)) IN
        /\ dirs' = made \ {MkdirError}
        /\ IF MkdirError \in made
           THEN /\ ctor' = "OSError"
                /\ self_dataset_path' = NoPath
                /\ self_negative_count' = NoCount
                /\ self_positive_count' = NoCount
                /\ base_negative' = NoCount
                /\ base_positive' = NoCount
           ELSE /\ ctor' = "ok"
                /\ self_dataset_path' = DatasetPath(p)
                /\ self_negative_count' = counted[1]
                /\ self_positive_count' = counted[2]
                /\ base_negative' = counted[1]
                /\ base_positive' = counted[2]
    /\ self_lock' = NoCall
    /\ Retire
    /\ got' = NoGot
    /\ UNCHANGED write_failed
    /\ UNCHANGED <<files, envVars>>

(***************************************************************************)
(* save_sample(sample, use_thread)                                         *)
(***************************************************************************)
\* the calls are numbered in the order they are made
NextSlot(c) == pc[c] = "idle" /\ \A d \in Calls : d < c => pc[d] # "idle"

\* lines 87-88: the isinstance test fails, TypeError is raised
EnterTypeError(c, t) ==
    /\ ctor = "ok"
    /\ NextSlot(c)
    /\ Cardinality({d \in Calls : InFlight(d)}) < MaxInFlight
    /\ ~IsInstance(t, RefType)
    /\ sample_type' = [sample_type EXCEPT ![c] = t]
    /\ pc' = [pc EXCEPT ![c] = "type_error"]
    /\ ret' = [ret EXCEPT ![c] = "TypeError"]
    /\ got' = NoGot
    /\ UNCHANGED write_failed
    /\ UNCHANGED <<fsVars, selfVars, counterVars, self_lock, serial, envVars,
                   is_positive, use_thread, localVars, field_index, targets, joined>>

\* lines 87-88: the isinstance test passes
Enter(c, t, pos, thr) ==
    /\ ctor = "ok"
    /\ NextSlot(c)
    /\ Cardinality({d \in Calls : InFlight(d)}) < MaxInFlight
    /\ IsInstance(t, RefType)
    /\ sample_type' = [sample_type EXCEPT ![c] = t]
    /\ is_positive' = [is_positive EXCEPT ![c] = pos]
    /\ use_thread' = [use_thread EXCEPT ![c] = thr]
    /\ serial' = (serial /\ \A d \in Calls : ret[d] # "pending")
    /\ pc' = [pc EXCEPT ![c] = "acquire"]
    /\ ret' = [ret EXCEPT ![c] = "pending"]
    /\ got' = NoGot
    /\ UNCHANGED write_failed
    /\ UNCHANGED <<fsVars, selfVars, counterVars, self_lock, envVars, localVars,
                   field_index, targets, joined>>

\* line 90: with self._lock (the class of the sample is not read after line 87)
Acquire(c) ==
    /\ pc[c] = "acquire"
    /\ LockFree(self_lock)
    /\ self_lock' = c
    /\ pc' = [pc EXCEPT ![c] = "classify"]
    /\ sample_type' = [sample_type EXCEPT ![c] = RefType]
    /\ got' = NoGot
    /\ UNCHANGED write_failed
    /\ UNCHANGED <<fsVars, selfVars, counterVars, serial, envVars, use_thread,
                   is_positive, localVars, field_index, targets, ret, joined>>

\* lines 91-93 and 95-97: the branch on sample.is_positive(), the read of the counter
Classify(c) ==
    /\ pc[c] = "classify"
    /\ IF is_positive[c]
       THEN /\ count' = [count EXCEPT ![c] = self_positive_count]
            /\ folder_pos_neg' = [folder_pos_neg EXCEPT ![c] = POSITIVE_DATA_FOLDER]
       ELSE /\ count' = [count EXCEPT ![c] = self_negative_count]
            /\ folder_pos_neg' = [folder_pos_neg EXCEPT ![c] = NEGATIVE_DATA_FOLDER]
    /\ pc' = [pc EXCEPT ![c] = "increment"]
    /\ got' = NoGot
    /\ UNCHANGED write_failed
    /\ UNCHANGED <<fsVars, selfVars, counterVars, self_lock, serial, envVars,
                   argVars, is_positive, positive_count, negative_count,
                   field_index, targets, ret, joined>>

\* line 91: sample.is_positive() raises; the with statement releases the lock
ClassifyRaises(c) ==
    /\ pc[c] = "classify"
    /\ failures < MaxFailures
    /\ failures' = failures + 1
    /\ pc' = [pc EXCEPT ![c] = "cls_error"]
    /\ ret' = [ret EXCEPT ![c] = "ClassifyError"]
    /\ self_lock' = WithExitOnRaise(self_lock, c)
    /\ got' = NoGot
    /\ UNCHANGED write_failed
    /\ UNCHANGED <<fsVars, selfVars, counterVars, serial, relabels, argVars,
                   is_positive, localVars, field_index, targets, joined>>

\* line 94 or 98: the increment of the branch counter
Increment(c) ==
    /\ pc[c] = "increment"
    /\ self_positive_count' =
         IF folder_pos_neg[c] = POSITIVE_DATA_FOLDER
         THEN Incremented(self_positive_count) ELSE self_positive_count
    /\ self_negative_count' =
         IF folder_pos_neg[c] = NEGATIVE_DATA_FOLDER
         THEN Incremented(self_negative_count) ELSE self_negative_count
    /\ pc' = [pc EXCEPT ![c] = "snapshot"]
    /\ got' = NoGot
    /\ UNCHANGED write_failed
    /\ UNCHANGED <<fsVars, selfVars, self_lock, serial, envVars, argVars,
                   is_positive, localVars, field_index, targets, ret, joined>>

\* lines 100-101: the snapshot of both counters, then the end of the with block
Snapshot(c) ==
    /\ pc[c] = "snapshot"
    /\ positive_count' = [positive_count EXCEPT ![c] = self_positive_count]
    /\ negative_count' = [negative_count EXCEPT ![c] = self_negative_count]
    /\ self_lock' = WithExit(self_lock, c)
    /\ pc' = [pc EXCEPT ![c] = "dispatch"]
    /\ got' = NoGot
    /\ UNCHANGED write_failed
    /\ UNCHANGED <<fsVars, selfVars, counterVars, serial, envVars, argVars,
                   is_positive, count, folder_pos_neg, field_index, targets, ret,
                   joined>>

\* lines 112-117: start the thread and return it, or run save_all_fields inline
Dispatch(c) ==
    /\ pc[c] = "dispatch"
    /\ pc' = [pc EXCEPT ![c] = "write"]
    /\ field_index' = [field_index EXCEPT ![c] = 1]
    /\ ret' = [ret EXCEPT ![c] = IF use_thread[c] THEN "thread" ELSE "pending"]
    /\ got' = NoGot
    /\ UNCHANGED write_failed
    /\ UNCHANGED <<fsVars, selfVars, counterVars, self_lock, serial, envVars,
                   argVars, is_positive, localVars, targets, joined>>

\* lines 104-110: the path one iteration of save_all_fields hands to save_field
Target(c) ==
    LET field == Fields[field_index[c]] IN
    [dir  |-> Join(Join(Join(self_dataset_path, FolderName), folder_pos_neg[c]), field),
     name |-> FileName(is_positive[c], field,
                       positive_count[c] + negative_count[c], count[c])]

\* lines 105-110: one iteration of the loop, save_field succeeds
WriteField(c) ==
    /\ pc[c] = "write"
    /\ files' = files \cup {Target(c)}
    /\ targets' = [targets EXCEPT ![c] = Append(@, Target(c))]
    /\ IF LastField(field_index[c])
       THEN /\ pc' = [pc EXCEPT ![c] = "finished"]
            /\ ret' = [ret EXCEPT ![c] = IF use_thread[c] THEN @ ELSE "None"]
            /\ UNCHANGED field_index
       ELSE /\ field_index' = [field_index EXCEPT ![c] = @ + 1]
            /\ UNCHANGED <<pc, ret>>
    /\ got' = NoGot
    /\ UNCHANGED write_failed
    /\ UNCHANGED <<dirs, selfVars, counterVars, self_lock, serial, envVars,
                   argVars, is_positive, localVars, joined>>

\* lines 105-110: save_field raises; the loop is abandoned, nothing is undone
WriteFieldFails(c) ==
    /\ pc[c] = "write"
    /\ failures < MaxFailures
    /\ failures' = failures + 1
    /\ targets' = [targets EXCEPT ![c] = Append(@, Target(c))]
    /\ pc' = [pc EXCEPT ![c] = "io_error"]
    /\ ret' = [ret EXCEPT ![c] = IF use_thread[c] THEN @ ELSE "IOError"]
    /\ self_positive_count' =
         IF folder_pos_neg[c] = POSITIVE_DATA_FOLDER
         THEN CounterAfterFailure(self_positive_count) ELSE self_positive_count
    /\ self_negative_count' =
         IF folder_pos_neg[c] = NEGATIVE_DATA_FOLDER
         THEN CounterAfterFailure(self_negative_count) ELSE self_negative_count
    /\ got' = NoGot
    /\ write_failed' = TRUE
    /\ UNCHANGED <<fsVars, selfVars, self_lock, serial, relabels, argVars,
                   is_positive, localVars, field_index, joined>>

\* the caller waits for the thread save_sample returned
JoinThread(c) ==
    /\ ret[c] = "thread"
    /\ pc[c] \in {"finished", "io_error"}
    /\ joined[c] = "no"
    /\ joined' = [joined EXCEPT ![c] = JoinOutcome(pc[c])]
    /\ got' = NoGot
    /\ UNCHANGED write_failed
    /\ UNCHANGED <<fsVars, selfVars, counterVars, self_lock, serial, envVars, pc,
                   argVars, is_positive, localVars, field_index, targets, ret>>

\* the owner of the sample changes its label while the fields are being written
Relabel(c) ==
    /\ pc[c] = "write"
    /\ relabels < MaxRelabels
    /\ relabels' = relabels + 1
    /\ is_positive' = [is_positive EXCEPT ![c] = ~@]
    /\ got' = NoGot
    /\ UNCHANGED write_failed
    /\ UNCHANGED <<fsVars, selfVars, counterVars, self_lock, serial, failures, pc,
                   argVars, localVars, field_index, targets, ret, joined>>

Next ==
    \/ \E p \in DatasetPaths : ConstructFail(p)
    \/ \E p \in DatasetPaths : ConstructOk(p)
    \/ \E c \in Calls, t \in Types : EnterTypeError(c, t)
    \/ \E c \in Calls, t \in Types, pos \in BOOLEAN, thr \in BOOLEAN : Enter(c, t, pos, thr)
    \/ \E c \in Calls : Acquire(c)
    \/ \E c \in Calls : Classify(c)
    \/ \E c \in Calls : ClassifyRaises(c)
    \/ \E c \in Calls : Increment(c)
    \/ \E c \in Calls : Snapshot(c)
    \/ \E c \in Calls : Dispatch(c)
    \/ \E c \in Calls : WriteField(c)
    \/ \E c \in Calls : WriteFieldFails(c)
    \/ \E c \in Calls : JoinThread(c)
    \/ \E c \in Calls : Relabel(c)

Spec == Init /\ [][Next]_vars

(***************************************************************************)
(* get_positive_samples_count(), get_negative_samples_count(): the         *)
(* attribute is returned as it is, no lock is taken.                       *)
(***************************************************************************)
GetPositiveSamplesCount ==
    /\ ctor = "ok"
    /\ got' = [getter |-> "positive", value |-> self_positive_count]
    /\ UNCHANGED <<fsVars, selfVars, counterVars, self_lock, serial, envVars, pc,
                   callVars, write_failed>>

GetNegativeSamplesCount ==
    /\ ctor = "ok"
    /\ got' = [getter |-> "negative", value |-> self_negative_count]
    /\ UNCHANGED <<fsVars, selfVars, counterVars, self_lock, serial, envVars, pc,
                   callVars, write_failed>>

\* the manager with its getters; the steps of the sample's owner and of the
\* joiner, which touch nothing the manager keeps, are left out
NextGetters ==
    \/ \E p \in DatasetPaths : ConstructFail(p)
    \/ \E p \in DatasetPaths : ConstructOk(p)
    \/ \E c \in Calls, t \in Types : EnterTypeError(c, t)
    \/ \E c \in Calls, t \in Types, pos \in BOOLEAN, thr \in BOOLEAN : Enter(c, t, pos, thr)
    \/ \E c \in Calls : Acquire(c)
    \/ \E c \in Calls : Classify(c)
    \/ \E c \in Calls : ClassifyRaises(c)
    \/ \E c \in Calls : Increment(c)
    \/ \E c \in Calls : Snapshot(c)
    \/ \E c \in Calls : Dispatch(c)
    \/ \E c \in Calls : WriteField(c)
    \/ \E c \in Calls : WriteFieldFails(c)
    \/ GetPositiveSamplesCount
    \/ GetNegativeSamplesCount

SpecGetters == Init /\ [][NextGetters]_vars

(***************************************************************************)
(* The manager on a disk where part of the layout exists before the first  *)
(* construction (made by hand, or by a manager with another folder name or *)
(* other fields); every sample operation succeeds.                         *)
(***************************************************************************)
PartialTrees ==
    LET path == DatasetPath(CHOOSE p \in DatasetPaths : p.parent \in InitialDirs)
        folder == FolderPath(path)
    IN  {{},
         {path},
         {path, folder},
         {path, folder, BranchPath(path, NEGATIVE_DATA_FOLDER)},
         {path, folder, BranchPath(path, POSITIVE_DATA_FOLDER),
          FieldPath(path, POSITIVE_DATA_FOLDER, Fields[1])}}

InitLayout ==
    /\ dirs \in {InitialDirs \cup tree : tree \in PartialTrees}
    /\ InitManager

NextLayout ==
    \/ \E p \in DatasetPaths : ConstructFail(p)
    \/ \E p \in DatasetPaths : ConstructOk(p)
    \/ \E c \in Calls, t \in Types, pos \in BOOLEAN, thr \in BOOLEAN : Enter(c, t, pos, thr)
    \/ \E c \in Calls : Acquire(c)
    \/ \E c \in Calls : Classify(c)
    \/ \E c \in Calls : Increment(c)
    \/ \E c \in Calls : Snapshot(c)
    \/ \E c \in Calls : Dispatch(c)
    \/ \E c \in Calls : WriteField(c)

SpecLayout == InitLayout /\ [][NextLayout]_vars

(***************************************************************************)
(* The threads that run save_sample, scheduled fairly: a thread that can   *)
(* go on does go on.  Nothing obliges a caller to call, and the sample     *)
(* operations end, by returning or by raising.                             *)
(***************************************************************************)
ThreadStep(c) ==
    \/ Acquire(c)
    \/ Classify(c)
    \/ ClassifyRaises(c)
    \/ Increment(c)
    \/ Snapshot(c)
    \/ Dispatch(c)
    \/ WriteField(c)
    \/ WriteFieldFails(c)

NextFair ==
    \/ \E p \in DatasetPaths : ConstructFail(p)
    \/ \E p \in DatasetPaths : ConstructOk(p)
    \/ \E c \in Calls, t \in Types, pos \in BOOLEAN, thr \in BOOLEAN : Enter(c, t, pos, thr)
    \/ \E c \in Calls : ThreadStep(c)

SpecFair ==
    /\ Init
    /\ [][NextFair]_vars
    /\ \A c \in Calls : WF_vars(ThreadStep(c))

(***************************************************************************)
(* Vocabulary of the properties.                                           *)
(***************************************************************************)
Branches == {POSITIVE_DATA_FOLDER, NEGATIVE_DATA_FOLDER}
\* the calls that hold a reservation: their bookkeeping under the lock is complete
Reserved(c) == pc[c] \in {"dispatch", "write", "finished", "io_error"}
ReservedIn(branch) == {c \in Calls : Reserved(c) /\ folder_pos_neg[c] = branch}
BaseCount(branch) == IF branch = POSITIVE_DATA_FOLDER THEN base_positive ELSE base_negative
BranchCounter(branch) ==
    IF branch = POSITIVE_DATA_FOLDER THEN self_positive_count ELSE self_negative_count
PolarityWord(branch) == IF branch = POSITIVE_DATA_FOLDER THEN "positive" ELSE "negative"
Total(c) == positive_count[c] + negative_count[c]
\* the files of one field directory of the live collection
FieldFiles(branch, i) == ListFiles(files, FieldPath(self_dataset_path, branch, Fields[i]))
FieldIndexes == 1..Len(Fields)
WroteAllFields(c) == pc[c] = "finished"

(***************************************************************************)
(* C1: concurrent save_sample calls on one instance reserve pairwise       *)
(* distinct (polarity, ordinal) pairs, and within each polarity the        *)
(* reserved ordinals are exactly the contiguous range that starts at the   *)
(* counter value the instance began with: no duplicates, no gaps, whatever *)
(* the order in which the field writes complete.                           *)
(***************************************************************************)
C1_ReservationsDistinctAndContiguous ==
    ctor = "ok" =>
        /\ \A c, d \in Calls :
             (Reserved(c) /\ Reserved(d) /\ c # d)
                => <<folder_pos_neg[c], count[c]>> # <<folder_pos_neg[d], count[d]>>
        /\ \A b \in Branches :
             {count[c] : c \in ReservedIn(b)}
                = BaseCount(b) .. (BaseCount(b) + Cardinality(ReservedIn(b)) - 1)

\* two overlapping calls of the same polarity, one threaded and one not, the later
\* reservation completing its writes first
C1_Witness ==
    \E c, d \in Calls :
        /\ ~serial
        /\ folder_pos_neg[c] = folder_pos_neg[d]
        /\ use_thread[c] # use_thread[d]
        /\ count[c] >= 0 /\ count[d] = count[c] + 1
        /\ pc[d] = "finished" /\ pc[c] = "write"

(***************************************************************************)
(* C2: no two field writes of one instance, of the same save or of         *)
(* different saves, ever target the same path, for any interleaving of     *)
(* synchronous and threaded saves.                                         *)
(***************************************************************************)
C2_WritePathsUnique ==
    \A c, d \in Calls :
        \A i \in DOMAIN targets[c], j \in DOMAIN targets[d] :
            (c # d \/ i # j) => PathOf(targets[c][i]) # PathOf(targets[d][j])

\* a synchronous and a threaded save overlapped and both wrote all their fields
C2_Witness ==
    \E c, d \in Calls :
        /\ ~serial
        /\ use_thread[c] /\ ~use_thread[d]
        /\ WroteAllFields(c) /\ WroteAllFields(d)
        /\ folder_pos_neg[c] = folder_pos_neg[d]

(***************************************************************************)
(* C3: every file written by save_sample is named                          *)
(* {polarity}_{field}_{total}_({ordinal}) and lies in that polarity's      *)
(* directory for that field, ordinal being the branch counter before the   *)
(* save's increment and total the sum of both counters after it; on an     *)
(* empty collection a first positive save writes positive_a_1_(0) and      *)
(* positive_b_1_(0), a following negative save negative_a_2_(0) and        *)
(* negative_b_2_(0).                                                       *)
(***************************************************************************)
NamedByScheme(c, i) ==
    targets[c][i] =
        [dir  |-> FieldPath(self_dataset_path, folder_pos_neg[c], Fields[i]),
         name |-> PolarityWord(folder_pos_neg[c]) \o "_" \o Fields[i] \o "_"
                    \o ToString(Total(c)) \o "_(" \o ToString(count[c]) \o ")"]

FirstPositiveNames == <<"positive_a_1_(0)", "positive_b_1_(0)">>
NextNegativeNames == <<"negative_a_2_(0)", "negative_b_2_(0)">>

C3_FilesNamedByScheme ==
    /\ \A c \in Calls : \A i \in DOMAIN targets[c] : NamedByScheme(c, i)
    /\ \A c \in Calls : \A i \in DOMAIN targets[c] :
         /\ (folder_pos_neg[c] = POSITIVE_DATA_FOLDER /\ count[c] = 0 /\ Total(c) = 1)
               => targets[c][i].name = FirstPositiveNames[i]
         /\ (folder_pos_neg[c] = NEGATIVE_DATA_FOLDER /\ count[c] = 0 /\ Total(c) = 2)
               => targets[c][i].name = NextNegativeNames[i]

(***************************************************************************)
(* C4: after a sequence of save_sample calls issued serially on a          *)
(* collection has completed, every positive field directory holds as many  *)
(* files as there were positive saves, every negative field directory as   *)
(* many as there were negative saves, and all field directories of one     *)
(* polarity hold the same number of files.                                 *)
(***************************************************************************)
\* the saves classified into one branch: those that got as far as the classification
SavesIn(branch) == {c \in Calls : folder_pos_neg[c] = branch}
FieldCountsMatchSaves ==
    \A b \in Branches : \A i \in FieldIndexes :
        Cardinality(FieldFiles(b, i)) = BaseCount(b) + Cardinality(SavesIn(b))

WrittenBy(c) ==
    {targets[c][i] : i \in 1..(IF pc[c] = "io_error" THEN Len(targets[c]) - 1
                                                      ELSE Len(targets[c]))}
BuiltFromEmpty == files = UNION {WrittenBy(c) : c \in Calls}
NoWriteFailed == \A c \in Calls : pc[c] # "io_error"

Fresh == ctor = "ok" /\ \A c \in Calls : pc[c] \in {"idle", "retired"}

C5_InitialCountersCountFiles ==
    Fresh =>
        /\ self_positive_count = Cardinality(FieldFiles(POSITIVE_DATA_FOLDER, 1))
        /\ self_negative_count = Cardinality(FieldFiles(NEGATIVE_DATA_FOLDER, 1))
        /\ \A k \in 0..MaxCalls :
             /\ (\A i \in FieldIndexes : Cardinality(FieldFiles(POSITIVE_DATA_FOLDER, i)) = k)
                   => self_positive_count = k
             /\ (\A i \in FieldIndexes : Cardinality(FieldFiles(NEGATIVE_DATA_FOLDER, i)) = k)
                   => self_negative_count = k

\* a second manager on a tree holding two positive samples and no negative one
C5_Witness ==
    /\ Fresh
    /\ \A i \in FieldIndexes : Cardinality(FieldFiles(POSITIVE_DATA_FOLDER, i)) = 2
    /\ \A i \in FieldIndexes : Cardinality(FieldFiles(NEGATIVE_DATA_FOLDER, i)) = 0
    /\ self_positive_count = 2

(***************************************************************************)
(* C6: a save_sample call whose sample has an unexpected type fails with   *)
(* TypeError without ever taking the counter lock; the failing call leaves *)
(* both counters, the lock and the files as they are, whatever other saves *)
(* are running at the time.                                                *)
(***************************************************************************)
UnexpectedType(t) == t \notin Subclasses(RefType)
\* the step in which call c is made
Made(c) == pc[c] = "idle" /\ pc'[c] # "idle"

C6_TypeErrorTouchesNothing ==
    [][\A c \in Calls :
        /\ (Made(c) /\ UnexpectedType(sample_type'[c]))
              => /\ pc'[c] = "type_error"
                 /\ ret'[c] = "TypeError"
                 /\ UNCHANGED <<self_positive_count, self_negative_count, self_lock,
                                files, dirs>>
        /\ pc[c] = "type_error"
              => /\ pc'[c] \in {"type_error", "retired"}
                 /\ self_lock' # c
                 /\ count'[c] = NoCount /\ targets'[c] = <<>>]_vars

\* the call failed while an earlier save was inside the lock, files already stored
C6_Witness ==
    \E c, d \in Calls :
        /\ pc[c] = "type_error" /\ sample_type[c] = "Other"
        /\ d < c /\ self_lock = d /\ pc[d] = "increment"
        /\ files # {}

(***************************************************************************)
(* C7: save_sample fails with the type error for every sample whose        *)
(* concrete type is not the concrete type of the reference sample, a       *)
(* subtype of it included, and accepts only samples of exactly that type.  *)
(***************************************************************************)
\* the calls whose isinstance test has just been decided
Tested(c) == pc[c] \in {"type_error", "acquire"}

\* as claimed: exactly the reference sample's own class is accepted
C7_AsClaimed ==
    \A c \in Calls : Tested(c) => (pc[c] = "type_error" <=> sample_type[c] # RefType)

\* C7 as amended: save_sample fails with the type error exactly for the samples that
\* are no instance of the reference sample's class; a sample of a subclass is accepted
C7_RejectsExactlyNonInstances ==
    \A c \in Calls :
        Tested(c) => (pc[c] = "type_error" <=> sample_type[c] \notin Subclasses(RefType))

\* a sample of a subclass has passed the test while one of an unrelated class failed it
C7_Witness ==
    \E c, d \in Calls :
        /\ pc[c] = "acquire" /\ sample_type[c] = "SubSample"
        /\ pc[d] = "type_error" /\ sample_type[d] = "Other"

(***************************************************************************)
(* C8: construction fails with FileNotFoundError when the parent directory *)
(* of the dataset path does not exist, and the failed attempt creates no   *)
(* directory: the file system is unchanged and no counter is initialised.  *)
(***************************************************************************)
Constructing == instances' # instances

C8_MissingParentFailsCleanly ==
    [][Constructing =>
        /\ (ctor_path'.parent \notin dirs) <=> (ctor' = "FileNotFoundError")
        /\ ctor' = "FileNotFoundError"
              => /\ dirs' = dirs /\ files' = files
                 /\ self_positive_count' = NoCount /\ self_negative_count' = NoCount]_vars

\* a failed construction on a machine where an earlier manager has stored samples
C8_Witness ==
    /\ ctor = "FileNotFoundError"
    /\ ctor_path.parent = "/missing"
    /\ files # {}
    /\ "/missing/ds" \notin dirs

(***************************************************************************)
(* C9: when a field write fails after the reservation the branch counter   *)
(* is not rolled back: it keeps its incremented value, and every later     *)
(* save of that polarity gets a strictly larger ordinal and total than the *)
(* failed save, although the failed save's file is missing.                *)
(***************************************************************************)
Failed(c) == pc[c] = "io_error"

C9_FailedWriteKeepsReservation ==
    [][\A c \in Calls :
        /\ Failed(c)' =>
              /\ BranchCounter(folder_pos_neg[c])' > count[c]'
              /\ self_positive_count' + self_negative_count' >= Total(c)'
        /\ Failed(c) =>
              \A d \in Calls :
                 /\ (pc[d] = "classify" /\ pc'[d] = "increment"
                        /\ folder_pos_neg'[d] = folder_pos_neg[c])
                       => count'[d] > count[c]
                 /\ (pc[d] = "snapshot" /\ pc'[d] = "dispatch"
                        /\ folder_pos_neg[d] = folder_pos_neg[c])
                       => Total(d)' > Total(c)]_vars

\* a synchronous save failed on its first field; the next save of the polarity, made
\* after it, took the next ordinal and wrote its files
C9_Witness ==
    \E c, d \in Calls :
        /\ serial /\ c < d
        /\ Failed(c) /\ ret[c] = "IOError" /\ targets[c][1] \notin files
        /\ WroteAllFields(d)
        /\ folder_pos_neg[d] = folder_pos_neg[c]
        /\ count[d] = count[c] + 1 /\ Total(d) > Total(c)

(***************************************************************************)
(* C10: with use_thread true a field write error is never raised by the    *)
(* save_sample call itself; it reaches the caller through the returned     *)
(* thread when the caller joins it, and is lost only if the caller never   *)
(* joins.                                                                  *)
(***************************************************************************)
ThreadedFailure(c) == use_thread[c] /\ Failed(c)

\* as claimed: a join of the failed thread raises the error
C10_AsClaimed ==
    \A c \in Calls :
        ThreadedFailure(c) => /\ ret[c] = "thread"
                              /\ joined[c] # "no" => joined[c] = "raised"

\* C10 as amended: with use_thread true a field write error is never raised by the
\* save_sample call itself, and it does not reach the caller through the returned
\* thread either: join returns normally, the error is lost whether or not the caller
\* joins, and the fields after the failed one are not written
C10_ThreadedFailureIsLost ==
    \A c \in Calls :
        /\ ThreadedFailure(c) => /\ ret[c] = "thread"
                                 /\ joined[c] \in {"no", "ok"}
                                 /\ Len(targets[c]) <= Len(Fields)
                                 /\ targets[c][Len(targets[c])] \notin WrittenBy(c)
        /\ ret[c] = "IOError" => ~use_thread[c]

\* the caller joined a thread whose first field write had failed
C10_Witness ==
    \E c \in Calls :
        /\ ThreadedFailure(c) /\ joined[c] = "ok"
        /\ Len(targets[c]) = 1 /\ files = {}

(***************************************************************************)
(* C11: when a save completes without a failed field write (save_sample    *)
(* has returned None, or join() on the returned thread has returned and    *)
(* the thread went through its loop), the save has written exactly one     *)
(* file for every declared field, in the order of the fields; a            *)
(* save_sample called with use_thread may return before any field is       *)
(* written.                                                                *)
(***************************************************************************)
CompletedSave(c) ==
    \/ ret[c] = "None"
    \/ ret[c] = "thread" /\ joined[c] # "no" /\ pc[c] = "finished"

OneFilePerField(c) ==
    /\ Len(targets[c]) = Len(Fields)
    /\ \A i \in 1..Len(Fields) :
        /\ targets[c][i] \in files
        /\ targets[c][i].dir = FieldPath(self_dataset_path, folder_pos_neg[c], Fields[i])

C11_CompletedSaveWroteEveryField ==
    \A c \in Calls : CompletedSave(c) => OneFilePerField(c)

\* a joined thread that wrote every field, next to a call that gave its thread
\* back before the thread wrote anything
C11_Witness ==
    \E c, d \in Calls :
        /\ ret[c] = "thread" /\ joined[c] = "ok" /\ pc[c] = "finished"
        /\ OneFilePerField(c)
        /\ ret[d] = "thread" /\ pc[d] = "write" /\ targets[d] = <<>>

(***************************************************************************)
(* C12: at every reachable state the positive count plus the negative      *)
(* count equals the number of save operations completed (started and not   *)
(* failed) since construction plus the number of pre-existing files found  *)
(* at startup.                                                             *)
(***************************************************************************)
CounterSum == self_positive_count + self_negative_count
BaseSum == base_positive + base_negative

\* as claimed, a save counting from the step that increments its counter and
\* as long as it has not failed
StartedNotFailed == {c \in Calls : pc[c] \in {"snapshot", "dispatch", "write", "finished"}}
C12_AsClaimed ==
    ctor = "ok" => CounterSum = BaseSum + Cardinality(StartedNotFailed)

\* C12 as amended: the two counters add up to the files counted at startup plus
\* the saves that have incremented their counter since, the saves whose field
\* writes failed afterwards included
HasIncremented == {c \in Calls : pc[c] = "snapshot" \/ Reserved(c)}
C12_CountersCountReservations ==
    ctor = "ok" => CounterSum = BaseSum + Cardinality(HasIncremented)

\* on a tree that held a sample already: one save written, one save failed
C12_Witness ==
    /\ ctor = "ok" /\ Quiescent /\ BaseSum = 1
    /\ \E c, d \in Calls : pc[c] = "finished" /\ pc[d] = "io_error"
    /\ CounterSum = 3

(***************************************************************************)
(* C13: at every quiescent point (no save in flight) all the field         *)
(* directories of one branch contain the same number of files.             *)
(***************************************************************************)
FieldDirsLevel ==
    \A b \in Branches : \A i, j \in FieldIndexes :
        Cardinality(FieldFiles(b, i)) = Cardinality(FieldFiles(b, j))

CounterStep(c) ==
    \/ pc[c] = "classify" /\ pc'[c] = "increment"
    \/ pc[c] = "increment" /\ pc'[c] = "snapshot"
    \/ pc[c] = "snapshot" /\ pc'[c] = "dispatch"

\* a getter reads its counter and returns it
GetterStep == got' # NoGot

\* as claimed; a getter that held the lock for its read could return only while
\* no save holds it
C14_AsClaimed ==
    [][/\ \A c \in Calls : CounterStep(c) => self_lock = c
       /\ GetterStep => LockFree(self_lock)]_vars

\* C14 as amended: save_sample reads and increments the counters only while it
\* holds the lock; the getters read a counter without taking the lock
C14_SaveTouchesCountersUnderLock ==
    [][\A c \in Calls : CounterStep(c) => self_lock = c]_vars

\* a save holds the lock between its read of the positive counter and the
\* increment, and the getter has just returned that counter
C14_Witness ==
    \E c \in Calls :
        /\ self_lock = c /\ pc[c] = "increment"
        /\ folder_pos_neg[c] = POSITIVE_DATA_FOLDER
        /\ got = [getter |-> "positive", value |-> count[c]]

(***************************************************************************)
(* C15: the directory setup of the constructor is idempotent: it creates   *)
(* the dataset root, the collection folder, the positive and negative      *)
(* branch directories and one subdirectory per field in each branch when   *)
(* they are absent, raises no error when any of them is there already, and *)
(* a second construction on the resulting tree leaves the tree and the     *)
(* files in it unchanged.                                                  *)
(***************************************************************************)
C15_SetUpIsIdempotent ==
    [][(Constructing /\ ParentExists(dirs, ctor_path'))
        => LET layout == LayoutDirs(DatasetPath(ctor_path')) IN
            /\ ctor' = "ok"
            /\ dirs' = dirs \cup layout
            /\ files' = files
            /\ (layout \subseteq dirs => dirs' = dirs)]_vars

\* the second construction found the whole tree, with the files of a positive
\* and a negative sample in it
C15_Witness ==
    /\ instances = 2 /\ ctor = "ok"
    /\ LayoutDirs(self_dataset_path) \subseteq dirs
    /\ base_positive = 1 /\ base_negative = 1
    /\ Cardinality(files) = 2 * Len(Fields)

(***************************************************************************)
(* C16: the scope of the lock never includes I/O: no field write happens   *)
(* while the thread that performs it holds the lock, so a save whose       *)
(* writes are slow or blocked never prevents another save from reserving.  *)
(***************************************************************************)
\* the holder of the lock is in its bookkeeping, lines 91-101
C16_LockExcludesFieldWrites ==
    \A c \in Calls :
        self_lock = c => pc[c] \in {"classify", "increment", "snapshot"}

\* call c has written one field and is held up before the next, call d has
\* taken the lock since and read the ordinal that follows c's
C16_Witness ==
    \E c, d \in Calls :
        /\ pc[c] = "write" /\ Len(targets[c]) = 1
        /\ self_lock = d /\ pc[d] = "increment"
        /\ folder_pos_neg[d] = folder_pos_neg[c]
        /\ count[d] = count[c] + 1

(***************************************************************************)
(* C17: each branch counter is monotonically non-decreasing over the life  *)
(* of a manager instance: every step of every operation (a successful      *)
(* save, a type-mismatch failure, a write failure, a getter) leaves each   *)
(* counter equal or larger by exactly one, and no step resets or decreases *)
(* it.                                                                     *)
(***************************************************************************)
\* call c takes the step of line 94 or 98
IncrementStep(c) == pc[c] = "increment" /\ pc'[c] = "snapshot"

C17_CountersNeverDecrease ==
    [][instances' = instances =>
        \/ UNCHANGED counterVars
        \/ \E c \in Calls :
            /\ IncrementStep(c)
            /\ \A b \in Branches :
                BranchCounter(b)' =
                    BranchCounter(b) + (IF folder_pos_neg[c] = b THEN 1 ELSE 0)]_vars

\* one instance has seen a type mismatch, a failed field write and a save that
\* reserved after it, and the getter has returned the counter at two
C17_Witness ==
    \E c, d, e \in Calls :
        /\ pc[c] = "type_error" /\ pc[d] = "io_error" /\ Reserved(e) /\ d < e
        /\ folder_pos_neg[d] = POSITIVE_DATA_FOLDER
        /\ folder_pos_neg[e] = POSITIVE_DATA_FOLDER
        /\ base_positive = 0
        /\ got = [getter |-> "positive", value |-> 2]

(***************************************************************************)
(* C18: under weak fairness of every thread no execution of concurrent     *)
(* save_sample calls deadlocks: every call that reaches the lock           *)
(* eventually acquires it and releases it, also when the classification of *)
(* the sample raises inside the lock, and once the bookkeeping of a save   *)
(* has committed its field-write loop eventually ends, with all fields     *)
(* written or with a failure.                                              *)
(***************************************************************************)
C18_EverySaveGetsThrough ==
    \A c \in Calls :
        /\ (pc[c] = "acquire")
              ~> (pc[c] \in {"dispatch", "cls_error"} /\ self_lock # c)
        /\ (pc[c] = "dispatch")
              ~> \/ pc[c] = "finished" /\ Len(targets[c]) = Len(Fields)
                 \/ pc[c] = "io_error"

\* two overlapping calls: the classification of one raised inside the lock, the
\* other took the lock after it and wrote every field
C18_Witness ==
    /\ ~serial
    /\ \E c, d \in Calls :
        /\ c < d /\ pc[c] = "cls_error" /\ pc[d] = "finished"
        /\ Len(targets[d]) = Len(Fields)

(***************************************************************************)
(* C19: the polarity prefix of every written file name agrees with the     *)
(* branch directory the file is written into: a file named positive_... is *)
(* only ever written under positive_samples and a file named negative_...  *)
(* only under negative_samples, with and without a thread, also when the   *)
(* classification of the sample changes between the reservation and the    *)
(* loop over the fields.                                                   *)
(***************************************************************************)
\* the file names that start with the given polarity word
NamesPrefixed(word) ==
    {word \o "_" \o Fields[i] \o "_" \o ToString(total) \o "_(" \o ToString(ordinal) \o ")" :
        i \in FieldIndexes, total \in 0..MaxCalls, ordinal \in 0..MaxCalls}

\* the field directories of one branch
BranchFieldDirs(b) ==
    {FieldPath(DatasetPath(p), b, Fields[i]) : p \in DatasetPaths, i \in FieldIndexes}

C19_PrefixAgreesWithBranch ==
    \A f \in files : \A b \in Branches :
        f.dir \in BranchFieldDirs(b) => f.name \in NamesPrefixed(PolarityWord(b))

(***************************************************************************)
(* C20: after any sequence of saves on one instance (saves whose field     *)
(* writes failed included), followed by the construction of a new          *)
(* DatasetDiskManager on the same dataset path and folder, no save on the  *)
(* new instance writes to a path at which a file already exists: the       *)
(* counters re-derived from the files on disk never lead to a file name    *)
(* that collides with, or overwrites, a file stored before.                *)
(***************************************************************************)
\* call c gets one field written by save_field
FieldWriteStep(c) ==
    /\ pc[c] = "write" /\ pc'[c] \in {"write", "finished"}
    /\ Len(targets'[c]) = Len(targets[c]) + 1

\* the live instance was constructed on a tree that held samples
OnPopulatedTree == ctor = "ok" /\ BaseSum > 0

C20_NewInstanceNeverOverwrites ==
    [][\A c \in Calls :
        (OnPopulatedTree /\ FieldWriteStep(c))
            => targets'[c][Len(targets'[c])] \notin files]_vars

====
